---- MODULE Spec2Model ----
(***************************************************************************)
(* The RAG semantic-search service of examples/rag-search: the lifespan    *)
(* bootstrap, POST /ingest and POST /query (backend/app/main.py), the      *)
(* vector-store wrapper (backend/app/endee_client.py) and the embedding    *)
(* helpers (backend/app/embeddings.py).                                    *)
(*                                                                         *)
(* Every handler is an `async def` without an await, so a handler runs to  *)
(* completion on the event loop: one action per handler.  The embedding    *)
(* model and the vector database are collaborators; each call to them may  *)
(* succeed or raise, chosen by the environment (env).  Texts, keys and     *)
(* values are strings; a Python dict is the sequence of its (key, value)   *)
(* items in insertion order; an Optional value is a record with isNone.    *)
(***************************************************************************)
EXTENDS Integers, Sequences, FiniteSets, TLC

VARIABLES
    phase,        \* "starting" | "serving" | "aborted": the lifespan of the app
    indexExists,  \* vector store: the index INDEX_NAME exists
    store,        \* vector store: the set of stored records {id, vector, meta}
    _model,       \* embeddings._model: "None" until the embedding model is loaded
    last,         \* the last operation: its request, collaborator calls, response
    latest,       \* history: id -> the document of the last successful ingest of id
    overwritten   \* history: a successful ingest has replaced another document of its id

vars == <<phase, indexExists, store, _model, last, latest, overwritten>>

-----------------------------------------------------------------------------
(* Configuration (config.py) and literals of the handlers *)

INDEX_NAME == "documents"
EMBEDDING_DIM == 384
SPACE_TYPE == "cosine"
EMBEDDING_MODEL == "sentence-transformers/all-MiniLM-L6-v2"
PRECISION_INT8 == "INT8"
WARMUP_TEXT == "warmup"

SnippetLen == 200
ELLIPSIS == "..."
TopKDefault == 5
TopKMin == 1
TopKMax == 50
HTTP_BAD_REQUEST == 400

(* Bounds of the model *)
MaxDocs == 2

-----------------------------------------------------------------------------
(* Python values *)

None == [isNone |-> TRUE, items |-> << >>]
Dict(items) == [isNone |-> FALSE, items |-> items]

\* bool(x) of an Optional[dict]: None and {} are falsy
Truthy(d) == ~d.isNone /\ Len(d.items) > 0

\* `d or {}` followed by dict(...): the items of the copy
ItemsOrEmpty(d) == IF Truthy(d) THEN d.items ELSE << >>

Keys(items) == {items[i][1] : i \in 1..Len(items)}

HasKey(items, k) == k \in Keys(items)

Lookup(items, k) == items[CHOOSE i \in 1..Len(items) : items[i][1] = k][2]

\* d[k] = v: an existing key keeps its position, a new key goes last
DictSet(items, k, v) ==
    IF HasKey(items, k)
    THEN [i \in 1..Len(items) |-> IF items[i][1] = k THEN <<k, v>> ELSE items[i]]
    ELSE Append(items, <<k, v>>)

Min(a, b) == IF a <= b THEN a ELSE b

-----------------------------------------------------------------------------
(* Inputs *)

X10 == "xxxxxxxxxx"
X50 == X10 \o X10 \o X10 \o X10 \o X10
T200 == X50 \o X50 \o X50 \o X50
T201 == T200 \o "y"

HELLO == "hello world"
GOODBYE == "goodbye world"

Doc(id, text, meta) == [id |-> id, text |-> text, meta |-> meta]

Ids == {"a", "b"}

Docs ==
    { Doc("a", HELLO, None),
      Doc("b", GOODBYE, Dict(<< >>)),
      Doc("a", T201, Dict(<< <<"snippet", "old">>, <<"source", "a.md">> >>)),
      Doc("b", T200, Dict(<< <<"source", "b.md">>, <<"lang", "en">> >>)) }

SeqsUpTo(S, n) == UNION {[1..k -> S] : k \in 0..n}

IngestBodies == {[documents |-> ds] : ds \in SeqsUpTo(Docs, MaxDocs)}

FilterInputs ==
    { None,
      Dict(<< >>),
      Dict(<< <<"source", "a.md">> >>),
      Dict(<< <<"source", "b.md">>, <<"lang", "en">> >>) }

TopKInputs == {0, 1, 50, 51}

\* the JSON body of POST /query; has_top_k is FALSE when the key is omitted
QueryBodies ==
    [query_text : {HELLO}, has_top_k : {TRUE}, top_k : TopKInputs,
     filters : FilterInputs]
    \cup
    [query_text : {HELLO}, has_top_k : {FALSE}, top_k : {0},
     filters : FilterInputs]

\* what the environment decides for one operation: the collaborator calls that
\* raise if they are made
LifespanEnvs == {{}, {"load"}, {"encode"}, {"get_index"}, {"create_index"},
                 {"get_index", "create_index"}}
IngestEnvs == {{}, {"load"}, {"encode"}, {"get_index"}, {"upsert"}}
QueryEnvs == {{}, {"load"}, {"encode"}, {"get_index"}, {"query"}}

-----------------------------------------------------------------------------
(* Collaborators: the embedding model and the vector database *)

Call(fn, arg, ok, ret) == [fn |-> fn, arg |-> arg, ok |-> ok, ret |-> ret]

CallsTo(calls, fn) == {i \in 1..Len(calls) : calls[i].fn = fn}

\* the embedding model, a deterministic stub
Encode(text) ==
    CASE text = HELLO -> <<1, 0>>
      [] text = GOODBYE -> <<0, 1>>
      [] OTHER -> <<1, 1>>

\* get_index succeeds only on an existing index, and may fail for any reason
GetIndexOk(env) == indexExists /\ "get_index" \notin env

\* create_index is refused for an existing index, and may fail for any reason
CreateIndexOk(env) == ~indexExists /\ "create_index" \notin env

\* index.upsert(batch): insert or overwrite by id, in batch order
RECURSIVE StoreUpsert(_, _)
StoreUpsert(st, batch) ==
    IF batch = << >> THEN st
    ELSE StoreUpsert({r \in st : r.id # Head(batch).id} \cup {Head(batch)},
                     Tail(batch))

\* the effect on the store of the calls of one operation
RECURSIVE StoreAfter(_, _)
StoreAfter(st, calls) ==
    IF calls = << >> THEN st
    ELSE StoreAfter(IF Head(calls).fn = "upsert" /\ Head(calls).ok
                    THEN StoreUpsert(st, Head(calls).arg)
                    ELSE st,
                    Tail(calls))

Dot(u, v) == u[1] * v[1] + u[2] * v[2]

\* the squared cosine of two vectors with no negative component, as <<num, den>>
Similarity(q, v) == <<Dot(q, v) * Dot(q, v), Dot(q, q) * Dot(v, v)>>

SimGE(s, t) == s[1] * t[2] >= t[1] * s[2]

\* a record satisfies a filter when it satisfies each {key: {"$eq": value}} clause
StoreMatches(rec, kwargs) ==
    "filter" \in DOMAIN kwargs =>
        \A i \in 1..Len(kwargs.filter) :
            \A k \in DOMAIN kwargs.filter[i] :
                \A op \in DOMAIN kwargs.filter[i][k] :
                    /\ op = "$eq"
                    /\ HasKey(rec.meta, k)
                    /\ Lookup(rec.meta, k) = kwargs.filter[i][k][op]

Hit(rec, q) == [id |-> rec.id, similarity |-> Similarity(q, rec.vector),
                meta |-> rec.meta]

\* index.query(**kwargs): the answers the store may give: the matching records by
\* descending similarity, ties in any order, cut to top_k
StoreQuery(st, kwargs) ==
    LET cand == {r \in st : StoreMatches(r, kwargs)}
        n == Cardinality(cand)
        orders == {f \in [1..n -> cand] :
                      /\ \A i, j \in 1..n : i # j => f[i] # f[j]
                      /\ \A i, j \in 1..n : i < j =>
                            SimGE(Similarity(kwargs.vector, f[i].vector),
                                  Similarity(kwargs.vector, f[j].vector))}
    IN  {[i \in 1..Min(kwargs.top_k, n) |-> Hit(f[i], kwargs.vector)] : f \in orders}

-----------------------------------------------------------------------------
(* embeddings.py *)

Result(calls, raised, value) == [calls |-> calls, raised |-> raised, value |-> value]

\* the lazy singleton: SentenceTransformer(EMBEDDING_MODEL) is called only while
\* _model is None, and may raise
_get_model(env) ==
    IF _model # "None" THEN Result(<< >>, FALSE, _model)
    ELSE IF "load" \in env
    THEN Result(<<Call("load", EMBEDDING_MODEL, FALSE, << >>)>>, TRUE, "None")
    ELSE Result(<<Call("load", EMBEDDING_MODEL, TRUE, << >>)>>, FALSE, EMBEDDING_MODEL)

\* the value of _model after the calls of one operation
ModelAfter(calls) ==
    IF \E i \in CallsTo(calls, "load") : calls[i].ok THEN EMBEDDING_MODEL ELSE _model

embed_text(text, env) ==
    LET m == _get_model(env)
    IN  IF m.raised THEN Result(m.calls, TRUE, << >>)
        ELSE IF "encode" \in env
        THEN Result(m.calls \o <<Call("encode", text, FALSE, << >>)>>, TRUE, << >>)
        ELSE Result(m.calls \o <<Call("encode", text, TRUE, Encode(text))>>,
                    FALSE, Encode(text))

embed_texts(texts, env) ==
    LET m == _get_model(env)
        vs == [i \in 1..Len(texts) |-> Encode(texts[i])]
    IN  IF m.raised THEN Result(m.calls, TRUE, << >>)
        ELSE IF "encode" \in env
        THEN Result(m.calls \o <<Call("encode", texts, FALSE, << >>)>>, TRUE, << >>)
        ELSE Result(m.calls \o <<Call("encode", texts, TRUE, vs)>>, FALSE, vs)

-----------------------------------------------------------------------------
(* endee_client.py *)

GetIndexCall(env) == Call("get_index", [name |-> INDEX_NAME], GetIndexOk(env), << >>)

CreateIndexCall(env) ==
    Call("create_index",
         [name |-> INDEX_NAME, dimension |-> EMBEDDING_DIM,
          space_type |-> SPACE_TYPE, precision |-> PRECISION_INT8],
         CreateIndexOk(env), << >>)

\* mutant: the index is created without looking it up first
ensure_index_exists_always_creates(env) ==
    Result(<<CreateIndexCall(env)>>, ~CreateIndexOk(env), << >>)

ensure_index_exists(env) ==
    IF GetIndexOk(env)
    THEN Result(<<GetIndexCall(env)>>, FALSE, << >>)
    ELSE Result(<<GetIndexCall(env), CreateIndexCall(env)>>, ~CreateIndexOk(env), << >>)

\* mutant: a failure of upsert is swallowed
upsert_documents_swallows(vectors_with_metadata, env) ==
    IF ~GetIndexOk(env)
    THEN Result(<<GetIndexCall(env)>>, TRUE, << >>)
    ELSE Result(<<GetIndexCall(env),
                  Call("upsert", vectors_with_metadata, "upsert" \notin env, << >>)>>,
                FALSE, << >>)

upsert_documents(vectors_with_metadata, env) ==
    IF ~GetIndexOk(env)
    THEN Result(<<GetIndexCall(env)>>, TRUE, << >>)
    ELSE Result(<<GetIndexCall(env),
                  Call("upsert", vectors_with_metadata, "upsert" \notin env, << >>)>>,
                "upsert" \in env, << >>)

\* mutant: one clause holding every key
_normalize_filter_one_clause(filters) ==
    << [k \in Keys(filters.items) |-> ("$eq" :> Lookup(filters.items, k))] >>

_normalize_filter(filters) ==
    [i \in 1..Len(filters.items) |->
        (filters.items[i][1] :> ("$eq" :> filters.items[i][2]))]

\* mutant: `if filters is not None`
query_kwargs_not_none(vector, top_k, filters) ==
    IF ~filters.isNone
    THEN [vector |-> vector, top_k |-> top_k, filter |-> _normalize_filter(filters)]
    ELSE [vector |-> vector, top_k |-> top_k]

query_kwargs(vector, top_k, filters) ==
    IF Truthy(filters)
    THEN [vector |-> vector, top_k |-> top_k, filter |-> _normalize_filter(filters)]
    ELSE [vector |-> vector, top_k |-> top_k]

\* ret is the answer of index.query, one of StoreQuery(store, kwargs)
query_similar(vector, top_k, filters, env, ret) ==
    LET kwargs == query_kwargs(vector, top_k, filters)
    IN  IF ~GetIndexOk(env)
        THEN Result(<<GetIndexCall(env)>>, TRUE, << >>)
        ELSE IF "query" \in env
        THEN Result(<<GetIndexCall(env), Call("query", kwargs, FALSE, << >>)>>,
                    TRUE, << >>)
        ELSE Result(<<GetIndexCall(env), Call("query", kwargs, TRUE, ret)>>,
                    FALSE, ret)

-----------------------------------------------------------------------------
(* main.py *)

Response(status, body) == [status |-> status, body |-> body]

\* an exception that leaves a handler: the framework answers 500
ServerError == Response(500, [detail |-> "Internal Server Error"])

\* a body that fails the request model: the framework answers 422, handler not run
ValidationError == Response(422, [detail |-> "validation error"])

Outcome(calls, resp) == [calls |-> calls, resp |-> resp]

\* mutant: the upper limit is missing
top_k_valid_no_upper(body) == ~body.has_top_k \/ body.top_k >= TopKMin

\* QueryRequest.top_k: Field(default=5, ge=1, le=50)
top_k_valid(body) ==
    ~body.has_top_k \/ (body.top_k >= TopKMin /\ body.top_k <= TopKMax)

QueryRequest(body) ==
    [query_text |-> body.query_text,
     top_k |-> IF body.has_top_k THEN body.top_k ELSE TopKDefault,
     filters |-> body.filters]

\* mutant: >= for >
snippet_ge(text) ==
    IF Len(text) >= SnippetLen
    THEN SubSeq(text, 1, SnippetLen) \o ELLIPSIS
    ELSE text

\* doc.text[:200] + "..." if len(doc.text) > 200 else doc.text
snippet(text) ==
    IF Len(text) > SnippetLen
    THEN SubSeq(text, 1, SnippetLen) \o ELLIPSIS
    ELSE text

\* mutant: the document's own meta is dropped
ingest_record_drops_meta(doc, vector) ==
    [id |-> doc.id, vector |-> vector, meta |-> << <<"snippet", snippet(doc.text)>> >>]

\* one pass of the loop body of ingest
ingest_record(doc, vector) ==
    [id |-> doc.id,
     vector |-> vector,
     meta |-> DictSet(ItemsOrEmpty(doc.meta), "snippet", snippet(doc.text))]

\* the loop of ingest over zip(request.documents, vectors)
vectors_with_metadata(documents, vectors) ==
    [i \in 1..Min(Len(documents), Len(vectors)) |->
        ingest_record(documents[i], vectors[i])]

\* mutant: `if request.documents is None`
no_documents_none_only(request) == FALSE

\* not request.documents
no_documents(request) == Len(request.documents) = 0

\* mutant: the count of distinct ids
ingest_response_distinct(request) ==
    Response(200, [status |-> "ok",
                   ingested |-> Cardinality({request.documents[i].id :
                                                i \in 1..Len(request.documents)})])

ingest_response(request) ==
    Response(200, [status |-> "ok", ingested |-> Len(request.documents)])

ingest_handler(request, env) ==
    IF no_documents(request)
    THEN Outcome(<< >>, Response(HTTP_BAD_REQUEST, [detail |-> "No documents provided"]))
    ELSE LET texts == [i \in 1..Len(request.documents) |-> request.documents[i].text]
             e == embed_texts(texts, env)
             batch == vectors_with_metadata(request.documents, e.value)
             u == upsert_documents(batch, env)
         IN  IF e.raised THEN Outcome(e.calls, ServerError)
             ELSE IF u.raised THEN Outcome(e.calls \o u.calls, ServerError)
             ELSE Outcome(e.calls \o u.calls, ingest_response(request))

\* mutant: the results are returned in reverse
query_response_reversed(results) ==
    Response(200, [results |-> [i \in 1..Len(results) |->
                                   results[Len(results) + 1 - i]]])

query_response(results) == Response(200, [results |-> results])

query_handler(body, env, ret) ==
    IF ~top_k_valid(body) THEN Outcome(<< >>, ValidationError)
    ELSE LET request == QueryRequest(body)
             e == embed_text(request.query_text, env)
             q == query_similar(e.value, request.top_k, request.filters, env, ret)
         IN  IF e.raised THEN Outcome(e.calls, ServerError)
             ELSE IF q.raised THEN Outcome(e.calls \o q.calls, ServerError)
             ELSE Outcome(e.calls \o q.calls, query_response(q.value))

lifespan_handler(env) ==
    LET e == embed_text(WARMUP_TEXT, env)
        x == ensure_index_exists(env)
    IN  IF e.raised THEN Result(e.calls, TRUE, << >>)
        ELSE Result(e.calls \o x.calls, x.raised, << >>)

-----------------------------------------------------------------------------
(* State machine *)

Op(op, request, calls, resp) ==
    [op |-> op, request |-> request, calls |-> calls, resp |-> resp]

RECURSIVE Remember(_, _)
Remember(h, documents) ==
    IF documents = << >> THEN h
    ELSE Remember([id \in DOMAIN h \cup {Head(documents).id} |->
                      IF id = Head(documents).id THEN Head(documents) ELSE h[id]],
                  Tail(documents))

Init ==
    /\ phase = "starting"
    /\ indexExists \in BOOLEAN
    /\ store = {}
    /\ _model = "None"
    /\ last = Op("none", << >>, << >>, Response(0, << >>))
    /\ latest = << >>
    /\ overwritten = FALSE

\* startup: the app serves requests only after lifespan has reached its yield
lifespan ==
    /\ phase = "starting"
    /\ \E env \in LifespanEnvs :
        LET r == lifespan_handler(env)
            created == \E i \in CallsTo(r.calls, "create_index") : r.calls[i].ok
        IN  /\ phase' = IF r.raised THEN "aborted" ELSE "serving"
            /\ indexExists' = (indexExists \/ created)
            /\ _model' = ModelAfter(r.calls)
            /\ last' = Op("lifespan", << >>, r.calls,
                          Response(IF r.raised THEN 500 ELSE 200, << >>))
    /\ UNCHANGED <<store, latest, overwritten>>

ingest ==
    /\ phase = "serving"
    /\ \E request \in IngestBodies, env \in IngestEnvs :
        LET r == ingest_handler(request, env)
            ok == r.resp.status = 200
        IN  /\ store' = StoreAfter(store, r.calls)
            /\ _model' = ModelAfter(r.calls)
            /\ last' = Op("ingest", request, r.calls, r.resp)
            /\ latest' = IF ok THEN Remember(latest, request.documents) ELSE latest
            /\ overwritten' =
                  (overwritten \/
                      (ok /\ \E i \in 1..Len(request.documents) :
                                LET d == request.documents[i]
                                IN  d.id \in DOMAIN latest /\ latest[d.id] # d))
    /\ UNCHANGED <<phase, indexExists>>

query ==
    /\ phase = "serving"
    /\ \E body \in QueryBodies, env \in QueryEnvs :
        LET kwargs == query_kwargs(Encode(body.query_text),
                                   QueryRequest(body).top_k, body.filters)
        IN  \E ret \in IF top_k_valid(body) THEN StoreQuery(store, kwargs) ELSE {<< >>} :
                LET r == query_handler(body, env, ret)
                IN  /\ last' = Op("query", body, r.calls, r.resp)
                    /\ _model' = ModelAfter(r.calls)
    /\ store' = store
    /\ UNCHANGED <<phase, indexExists, latest, overwritten>>

Next == lifespan \/ ingest \/ query

Spec == Init /\ [][Next]_vars

-----------------------------------------------------------------------------
(* Properties *)

Failed(calls, fn) == \E i \in CallsTo(calls, fn) : ~calls[i].ok

IsIngest == last.op = "ingest"
IsQuery == last.op = "query"
Succeeded == last.resp.status = 200

\* C1: the store holds exactly one record per id ever ingested successfully, and
\* the record's vector and meta are those of the most recent ingest of the id
C1_UpsertLastWriteWins ==
    /\ {r.id : r \in store} = DOMAIN latest
    /\ \A id \in DOMAIN latest :
        /\ Cardinality({r \in store : r.id = id}) = 1
        /\ \A r \in store : r.id = id =>
            LET d == latest[id]
                given == IF d.meta.isNone THEN << >> ELSE d.meta.items
            IN  /\ r.vector = Encode(d.text)
                /\ Keys(r.meta) = Keys(given) \cup {"snippet"}
                /\ \A k \in Keys(given) \ {"snippet"} :
                      Lookup(r.meta, k) = Lookup(given, k)
                /\ Len(d.text) <= 200 => Lookup(r.meta, "snippet") = d.text
                /\ Len(d.text) > 200 =>
                      Lookup(r.meta, "snippet") = SubSeq(d.text, 1, 200) \o "..."

\* C1 witness: id a was ingested and then ingested again, in a later request, as a
\* different document, and one record is stored
C1_Witness ==
    /\ overwritten
    /\ DOMAIN latest = {"a"}
    /\ Cardinality(store) = 1

\* C2: an ingest with an empty documents list answers 400, calls neither the
\* embedding model nor the store, and leaves the stored records as they were
C2_EmptyIngestRejected ==
    [][(last'.op = "ingest" /\ Len(last'.request.documents) = 0) =>
          /\ last'.resp.status = 400
          /\ last'.calls = << >>
          /\ store' = store]_vars

\* C2 witness: an empty ingest was answered 400 while records are stored
C2_Witness ==
    /\ IsIngest
    /\ Len(last.request.documents) = 0
    /\ last.resp.status = 400
    /\ store # {}

\* C3: a query with top_k below 1 or above 50 is rejected with no collaborator
\* call; the top_k of every query call to the store is in 1..50, the request's
\* own, or 5 when the request omits it
C3_TopKChecked ==
    IsQuery =>
        /\ (last.request.has_top_k
              /\ (last.request.top_k < 1 \/ last.request.top_k > 50)) =>
                 (last.calls = << >> /\ ~Succeeded)
        /\ \A i \in CallsTo(last.calls, "query") :
              /\ last.calls[i].arg.top_k \in 1..50
              /\ last.calls[i].arg.top_k =
                    IF last.request.has_top_k THEN last.request.top_k ELSE 5

\* C3 witness: a query with top_k 51 was rejected without a call
C3_Witness ==
    /\ IsQuery
    /\ last.request.has_top_k
    /\ last.request.top_k = 51
    /\ last.calls = << >>
    /\ ~Succeeded

\* C4: the i-th record handed to upsert has meta["snippet"] equal to the first 200
\* characters of the i-th text followed by "..." when the text is longer than
\* 200 characters, and equal to the text when it has 200 characters or fewer
C4_Snippet ==
    IsIngest =>
        \A i \in CallsTo(last.calls, "upsert") :
            \A j \in 1..Len(last.request.documents) :
                LET text == last.request.documents[j].text
                    meta == last.calls[i].arg[j].meta
                IN  /\ HasKey(meta, "snippet")
                    /\ Len(text) > 200 =>
                          /\ Lookup(meta, "snippet") = SubSeq(text, 1, 200) \o "..."
                          /\ Len(Lookup(meta, "snippet")) = 203
                    /\ Len(text) <= 200 => Lookup(meta, "snippet") = text

\* C4 witness: one batch handed to upsert held a text of 200 and a text of 201
\* characters
C4_Witness ==
    /\ IsIngest
    /\ CallsTo(last.calls, "upsert") # {}
    /\ \E j, k \in 1..Len(last.request.documents) :
          /\ Len(last.request.documents[j].text) = 200
          /\ Len(last.request.documents[k].text) = 201

\* C5: normalization gives one clause per key of the mapping, in order, each
\* clause the single key with the single condition "$eq" on the key's value;
\* {"source": "a.md"} becomes the one clause {"source": {"$eq": "a.md"}}; the
\* filter a query call carries is this form of the request's filter mapping
C5_FilterNormalized ==
    IsQuery =>
        \A i \in CallsTo(last.calls, "query") :
            LET items == last.request.filters.items
                kwargs == last.calls[i].arg
            IN  /\ Truthy(last.request.filters) => "filter" \in DOMAIN kwargs
                /\ "filter" \in DOMAIN kwargs =>
                      /\ Len(kwargs.filter) = Cardinality(Keys(items))
                      /\ \A j \in 1..Len(kwargs.filter) :
                            /\ DOMAIN kwargs.filter[j] = {items[j][1]}
                            /\ DOMAIN kwargs.filter[j][items[j][1]] = {"$eq"}
                            /\ kwargs.filter[j][items[j][1]]["$eq"] = items[j][2]
                /\ items = << <<"source", "a.md">> >> =>
                      kwargs.filter = << ("source" :> ("$eq" :> "a.md")) >>

\* C5 witness: a query with a filter on two keys reached the store
C5_Witness ==
    /\ IsQuery
    /\ Len(last.request.filters.items) = 2
    /\ \E i \in CallsTo(last.calls, "query") : Len(last.calls[i].arg.filter) = 2

C6_State ==
    /\ phase = "starting" => last.op = "none"
    /\ (IsIngest \/ IsQuery) =>
          /\ phase = "serving"
          /\ CallsTo(last.calls, "create_index") = {}
    /\ phase = "serving" => indexExists
    /\ last.op = "lifespan" =>
          LET c == last.calls
              n == Len(c)
              warm == CallsTo(c, "encode")
              get == CallsTo(c, "get_index")
              create == CallsTo(c, "create_index")
          IN  /\ Cardinality(warm) <= 1
              /\ Cardinality(get) <= 1
              /\ Cardinality(create) <= 1
              /\ \A i \in warm : c[i].arg = "warmup"
              /\ \A i \in get :
                    /\ c[i].arg = [name |-> "documents"]
                    /\ i > 1 /\ c[i - 1].fn = "encode" /\ c[i - 1].ok
              /\ (\E i \in warm : c[i].ok) => get # {}
              /\ \A i \in create :
                    /\ c[i].arg = [name |-> "documents", dimension |-> 384,
                                   space_type |-> "cosine", precision |-> "INT8"]
                    /\ i > 1 /\ c[i - 1].fn = "get_index" /\ ~c[i - 1].ok
                    /\ i = n
              /\ \A i \in get : c[i].ok => i = n
              /\ (\E i \in get : ~c[i].ok) => create # {}
              /\ phase = IF /\ n >= 1
                            /\ c[n].ok
                            /\ c[n].fn \in {"get_index", "create_index"}
                         THEN "serving" ELSE "aborted"

\* C6: the bootstrap runs once, at startup, after the warm-up embedding and before
\* any request is served: it looks the index up by name and creates it, with the
\* configured dimension, space type and INT8 precision, exactly when the lookup
\* fails; ingest and query never create the index, and no bootstrap follows them
C6_BootstrapOnce ==
    /\ []C6_State
    /\ [][last'.op = "lifespan" => last.op = "none"]_vars

\* C6 witness: the bootstrap's lookup failed, the index was created and the app
\* went on to serve
C6_Witness ==
    /\ last.op = "lifespan"
    /\ Failed(last.calls, "get_index")
    /\ \E i \in CallsTo(last.calls, "create_index") : last.calls[i].ok
    /\ phase = "serving"

\* C7: the results of a successful query are the sequence the store returned; with
\* a = "hello world" and b = "goodbye world" ingested and the query embedding to
\* [1, 0], an unfiltered query returns a first and b, if returned, after it
C7_RankedUnmodified ==
    (IsQuery /\ Succeeded) =>
        /\ \A i \in CallsTo(last.calls, "query") :
              last.resp.body.results = last.calls[i].ret
        /\ ( /\ DOMAIN latest = {"a", "b"}
             /\ latest["a"].text = "hello world"
             /\ latest["b"].text = "goodbye world"
             /\ last.request.query_text = "hello world"
             /\ ~Truthy(last.request.filters) ) =>
               LET results == last.resp.body.results
               IN  /\ Len(results) >= 1
                   /\ results[1].id = "a"
                   /\ \A j \in 1..Len(results) : results[j].id = "b" => j = 2

\* C7 witness: both documents were ingested and the query returned a, then b
C7_Witness ==
    /\ IsQuery
    /\ Succeeded
    /\ DOMAIN latest = {"a", "b"}
    /\ latest["a"].text = "hello world"
    /\ latest["b"].text = "goodbye world"
    /\ ~Truthy(last.request.filters)
    /\ Len(last.resp.body.results) = 2
    /\ last.resp.body.results[1].id = "a"
    /\ last.resp.body.results[2].id = "b"

\* C8: a successful ingest of n >= 1 documents made one encode call over the n
\* texts in order and one upsert call of n records in order, the i-th with the
\* i-th document's id and the vector of its text, and answers ingested = n
C8_OneBatch ==
    (IsIngest /\ Succeeded) =>
        LET docs == last.request.documents
            n == Len(docs)
            c == last.calls
        IN  /\ n >= 1
            /\ Cardinality(CallsTo(c, "encode")) = 1
            /\ Cardinality(CallsTo(c, "upsert")) = 1
            /\ \A i \in CallsTo(c, "encode") :
                  c[i].arg = [j \in 1..n |-> docs[j].text]
            /\ \A i \in CallsTo(c, "upsert") :
                  /\ Len(c[i].arg) = n
                  /\ \A j \in 1..n :
                        /\ c[i].arg[j].id = docs[j].id
                        /\ c[i].arg[j].vector = Encode(docs[j].text)
            /\ last.resp.body = [status |-> "ok", ingested |-> n]

\* C8 witness: a successful ingest of two documents with the same id
C8_Witness ==
    /\ IsIngest
    /\ Succeeded
    /\ Len(last.request.documents) = 2
    /\ last.request.documents[1].id = last.request.documents[2].id
    /\ last.request.documents[1] # last.request.documents[2]

EmbeddingFailed(calls) == Failed(calls, "load") \/ Failed(calls, "encode")

C9_State ==
    (IsIngest \/ IsQuery) =>
        /\ \A i, j \in 1..Len(last.calls) :
              last.calls[i].fn = last.calls[j].fn => i = j
        /\ \A i \in 1..Len(last.calls) :
              ~last.calls[i].ok => (i = Len(last.calls) /\ ~Succeeded)
        /\ (IsIngest /\ EmbeddingFailed(last.calls)) =>
              CallsTo(last.calls, "upsert") = {}
        /\ (IsQuery /\ EmbeddingFailed(last.calls)) =>
              CallsTo(last.calls, "query") = {}
        /\ (IsIngest /\ (Failed(last.calls, "upsert")
                           \/ Failed(last.calls, "get_index"))) =>
              (~Succeeded /\ "status" \notin DOMAIN last.resp.body)

\* C9 as stated, of every operation, the startup included: a collaborator call that
\* fails is the last call of its operation, and the operation fails
C9_Original ==
    \A i \in 1..Len(last.calls) :
        ~last.calls[i].ok => (i = Len(last.calls) /\ ~Succeeded)

\* C9, amended: in ingest and query no collaborator call is repeated, a failed call is the
\* last call of the operation and the operation fails; after a failed encode an
\* ingest makes no upsert and leaves the stored records unchanged and a query
\* makes no store query; after a failed upsert or index lookup an ingest does
\* not answer status ok
C9_FailuresSurface ==
    /\ []C9_State
    /\ [][(last'.op = "ingest" /\ EmbeddingFailed(last'.calls)) =>
              store' = store]_vars

\* C9 witness: an ingest whose upsert call failed, with records stored
C9_Witness ==
    /\ IsIngest
    /\ Failed(last.calls, "upsert")
    /\ ~Succeeded
    /\ store # {}

\* C10: a query call to the store carries a filter argument exactly when the
\* request's filter mapping is present and not empty, and never an empty filter
C10_FilterOnlyIfNonEmpty ==
    IsQuery =>
        \A i \in CallsTo(last.calls, "query") :
            /\ ("filter" \in DOMAIN last.calls[i].arg) <=>
                  (~last.request.filters.isNone
                     /\ Len(last.request.filters.items) >= 1)
            /\ "filter" \in DOMAIN last.calls[i].arg =>
                  Len(last.calls[i].arg.filter) >= 1

\* C10 witness: a query with the empty mapping {} reached the store without a
\* filter argument
C10_Witness ==
    /\ IsQuery
    /\ ~last.request.filters.isNone
    /\ last.request.filters.items = << >>
    /\ \E i \in CallsTo(last.calls, "query") :
          DOMAIN last.calls[i].arg = {"vector", "top_k"}

====
